---- MODULE Spec2Model ----
(***************************************************************************)
(* BillWise receipt extraction engine (backend/parsing.py).                *)
(*                                                                         *)
(* Text is a TLA+ string; a character is a string of length one.  Every    *)
(* regular expression of parsing.py is an operator that computes the span  *)
(* <<first, last>> of the group the Python `re` engine returns (leftmost   *)
(* match, greedy quantifiers, backtracking), or <<>> when nothing matches. *)
(*                                                                         *)
(* Optional values are sequences: <<>> is "key not in dict", <<v>> is      *)
(* "key present with value v".  A date is <<year, month, day>>, Python's   *)
(* None is NoneVal.  A float is <<digits, scale>> (digits / 10^scale) with *)
(* trailing zero decimals removed, so 450.00 is <<450, 0>>.                *)
(***************************************************************************)
EXTENDS Integers, Sequences, FiniteSets, TLC

VARIABLES VENDOR_CATEGORIES, PATTERNS, pc, text, chunks, idx, receipts, result, exc,
          file, upc, at, created_receipts, db

vars == <<VENDOR_CATEGORIES, PATTERNS, pc, text, chunks, idx, receipts, result, exc,
          file, upc, at, created_receipts, db>>

\* the state of the upload requests and of the receipts table
uvars == <<file, upc, at, created_receipts, db>>

NoneVal == <<>>

(***************************************************************************)
(* Characters and character classes of the `re` module (str patterns).     *)
(***************************************************************************)
Ch(s, i) == IF i >= 1 /\ i <= Len(s) THEN SubSeq(s, i, i) ELSE ""

UpperChars == "ABCDEFGHIJKLMNOPQRSTUVWXYZ"
LowerChars == "abcdefghijklmnopqrstuvwxyz"
DigitChars == "0123456789"

Upper == {"A", "B", "C", "D", "E", "F", "G", "H", "I", "J", "K", "L", "M",
          "N", "O", "P", "Q", "R", "S", "T", "U", "V", "W", "X", "Y", "Z"}
Lower == {"a", "b", "c", "d", "e", "f", "g", "h", "i", "j", "k", "l", "m",
          "n", "o", "p", "q", "r", "s", "t", "u", "v", "w", "x", "y", "z"}
Digit == {"0", "1", "2", "3", "4", "5", "6", "7", "8", "9"}
Space == {" ", "\n", "\t", "\r", "\f"}
Letter == {c \in Upper \cup Lower : TRUE}
Word == {c \in Letter \cup Digit \cup {"_"} : TRUE}

LowerOf == [c \in Upper |-> Ch(LowerChars, CHOOSE i \in 1..26 : Ch(UpperChars, i) = c)]
DigitVal == [c \in Digit |-> (CHOOSE i \in 1..10 : Ch(DigitChars, i) = c) - 1]

UpperOf == [c \in Lower |-> Ch(UpperChars, CHOOSE i \in 1..26 : Ch(LowerChars, i) = c)]

LowerCh(c) == IF c \in Upper THEN LowerOf[c] ELSE c
UpperCh(c) == IF c \in Lower THEN UpperOf[c] ELSE c

RECURSIVE LowerStr(_)
LowerStr(s) ==
    IF s = "" THEN "" ELSE LowerCh(Head(s)) \o LowerStr(Tail(s))

\* str.strip(): leading and trailing whitespace removed
RECURSIVE LStrip(_)
LStrip(s) ==
    IF s # "" /\ Head(s) \in Space THEN LStrip(Tail(s)) ELSE s

RECURSIVE RStrip(_)
RStrip(s) ==
    IF s # "" /\ Ch(s, Len(s)) \in Space THEN RStrip(SubSeq(s, 1, Len(s) - 1)) ELSE s

Strip(s) == RStrip(LStrip(s))

\* str.replace(c, "") for a single character c
RECURSIVE RemoveCh(_, _)
RemoveCh(s, c) ==
    IF s = "" THEN ""
    ELSE IF Head(s) = c THEN RemoveCh(Tail(s), c)
    ELSE Head(s) \o RemoveCh(Tail(s), c)

\* `needle in hay`
Contains(hay, needle) ==
    \E p \in 1..(Len(hay) - Len(needle) + 1) :
        SubSeq(hay, p, p + Len(needle) - 1) = needle

\* last index of the maximal run of characters of class C starting at p (p-1: empty run)
RECURSIVE RunEnd(_, _, _)
RunEnd(t, p, C) ==
    IF p <= Len(t) /\ Ch(t, p) \in C THEN RunEnd(t, p + 1, C) ELSE p - 1

\* last index of the maximal run of [^\n] starting at p (p-1: empty run)
RECURSIVE LineEnd(_, _)
LineEnd(t, p) ==
    IF p <= Len(t) /\ Ch(t, p) # "\n" THEN LineEnd(t, p + 1) ELSE p - 1

\* a literal at position p; ci: under re.I (lit is given in lower case)
LitAt(t, p, lit, ci) ==
    /\ p + Len(lit) - 1 <= Len(t)
    /\ (IF ci THEN LowerCh(Ch(t, p)) ELSE Ch(t, p)) = Ch(lit, 1)
    /\ LET s == SubSeq(t, p, p + Len(lit) - 1)
       IN  (IF ci THEN LowerStr(s) ELSE s) = lit

SetMin(S) == CHOOSE x \in S : \A y \in S : x <= y
SetMax(S) == CHOOSE x \in S : \A y \in S : x >= y

\* the leftmost of the positions P where a pattern matches (0: it matches nowhere)
Leftmost(P) == IF P = {} THEN 0 ELSE SetMin(P)
\* the longest of the candidate ends E of a greedy quantifier (0: none)
Greediest(E) == IF E = {} THEN 0 ELSE SetMax(E)

\* the positions of t holding a character of F (where a match can start)
Starts(t, F) == {p \in 1..Len(t) : Ch(t, p) \in F}

\* a span as text
Group(t, g) == SubSeq(t, g[1], g[2])

(***************************************************************************)
(* re.split(r'\n-[-]{2,}\n|\n=[=]{2,}\n', text)                            *)
(***************************************************************************)
\* index of the last character of a separator match starting at p, 0 when none
SepEnd(t, p) ==
    IF Ch(t, p) = "\n" /\ Ch(t, p + 1) \in {"-", "="}
    THEN LET r == RunEnd(t, p + 1, {Ch(t, p + 1)})
         IN  IF r - p >= 3 /\ Ch(t, r + 1) = "\n" THEN r + 1 ELSE 0
    ELSE 0

\* where the leftmost separator match at or after start begins (0: there is none)
NextSep(t, start) == Leftmost({p \in start..Len(t) : SepEnd(t, p) > 0})

\* the pieces between the leftmost non-overlapping separator matches
RECURSIVE SplitFrom(_, _)
SplitAt(t, start, p) ==
    IF p = 0 THEN <<SubSeq(t, start, Len(t))>>
    ELSE <<SubSeq(t, start, p - 1)>> \o SplitFrom(t, SepEnd(t, p) + 1)

SplitFrom(t, start) == SplitAt(t, start, NextSep(t, start))

Split(t) == SplitFrom(t, 1)

\* `not chunk.strip()`
IsBlank(chunk) == Strip(chunk) = ""

(***************************************************************************)
(* Vendor recognition                                                      *)
(***************************************************************************)
AllCapsClass == {c \in Upper \cup Space \cup {"&"} : TRUE}

\* re.compile(r"^([A-Z\s&]+)$", re.MULTILINE) at line start p: the greedy group
\* (0 when there is no match at p)
AllCapsEnd(t, p) ==
    IF p = 1 \/ Ch(t, p - 1) = "\n"
    THEN Greediest({e \in p..RunEnd(t, p, AllCapsClass) : e = Len(t) \/ Ch(t, e + 1) = "\n"})
    ELSE 0

SpanTo(p, e) == IF e = 0 THEN <<>> ELSE <<p, e>>

\* all_caps_pattern.search(chunk)
AllCapsFrom(t, p) == IF p = 0 THEN <<>> ELSE SpanTo(p, AllCapsEnd(t, p))

AllCapsSearch(t) ==
    AllCapsFrom(t, Leftmost({p \in Starts(t, AllCapsClass) : AllCapsEnd(t, p) # 0}))

\* the tail  \s*([^\n]+)  from position q, with what follows it: the group
\* (needNl: the tail is followed by \n in the pattern)
TailStart(t, q, needNl) ==
    Greediest({s \in q..(RunEnd(t, q, Space) + 1) :
                  /\ s <= Len(t)
                  /\ Ch(t, s) # "\n"
                  /\ (needNl => LineEnd(t, s) < Len(t))})

LineFrom(t, s) == IF s = 0 THEN <<>> ELSE <<s, LineEnd(t, s)>>

TailGroup(t, q, needNl) == LineFrom(t, TailStart(t, q, needNl))

VendorLabels == <<"from:", "billed by:", "sold by:", "store:">>

\* PATTERNS["vendor"][0]: (?:from|billed by|sold by|store):\s*([^\n]+)   re.I
LabelTail(t, p, k) ==
    IF k = 0 THEN <<>> ELSE TailGroup(t, p + Len(VendorLabels[k]), FALSE)

LabelAt(t, p) ==
    LabelTail(t, p, Leftmost({i \in 1..Len(VendorLabels) : LitAt(t, p, VendorLabels[i], TRUE)}))

VendorLabelSearch(t) ==
    LabelAt(t, Leftmost({p \in Starts(t, {"f", "F", "b", "B", "s", "S"}) : LabelAt(t, p) # <<>>}))

LetterOrSpace == {c \in Letter \cup Space : TRUE}

\* PATTERNS["vendor"][1]: ^(?:[A-Z\s]+)\n   re.I -- a match object with NO group 1
LeadingCapsMatches(t) ==
    \E j \in 2..RunEnd(t, 1, LetterOrSpace) : Ch(t, j) = "\n"

\* PATTERNS["vendor"][2]: ^\s*([^\n]+)\n   re.I
FirstLineSearch(t) == TailGroup(t, 1, TRUE)

\* PATTERNS["vendor"][3]: Store[^\n]*:\s*([^\n]+)   re.I
StoreTail(t, c) == IF c = 0 THEN <<>> ELSE TailGroup(t, c + 1, FALSE)

StoreAt(t, p) ==
    IF ~LitAt(t, p, "store", TRUE) THEN <<>>
    ELSE StoreTail(t, Greediest({c \in (p + 5)..LineEnd(t, p + 5) :
                                    Ch(t, c) = ":" /\ TailStart(t, c + 1, FALSE) # 0}))

StoreSearch(t) ==
    StoreAt(t, Leftmost({p \in Starts(t, {"s", "S"}) : StoreAt(t, p) # <<>>}))

(***************************************************************************)
(* Date recognition and clean_date                                         *)
(***************************************************************************)
AllDigits(t, a, b) == b <= Len(t) /\ \A k \in a..b : Ch(t, k) \in Digit

\* \d{2} sep \d{2} sep \d{4} at q, each sep drawn from Seps
NumericDateAt(t, q, Seps) ==
    /\ AllDigits(t, q, q + 1)
    /\ Ch(t, q + 2) \in Seps
    /\ AllDigits(t, q + 3, q + 4)
    /\ Ch(t, q + 5) \in Seps
    /\ AllDigits(t, q + 6, q + 9)

\* a label (re.I), \s*, then a numeric date: the group
DateSpan(t, q, Seps) == IF NumericDateAt(t, q, Seps) THEN <<q, q + 9>> ELSE <<>>

LabelledDateAt(t, p, label, Seps) ==
    IF ~LitAt(t, p, label, TRUE) THEN <<>>
    ELSE DateSpan(t, RunEnd(t, p + Len(label), Space) + 1, Seps)

\* PATTERNS["date"][0]: Date:\s*(\d{2}[/-]\d{2}[/-]\d{4})   re.I
DateLabelSearch(t) ==
    LabelledDateAt(t, Leftmost({p \in Starts(t, {"d", "D"}) :
                                   LabelledDateAt(t, p, "date:", {"/", "-"}) # <<>>}),
                   "date:", {"/", "-"})

\* PATTERNS["date"][1]: (\d{2}-\w{3}-\d{4})   re.I
MonthNameDateAt(t, p) ==
    /\ AllDigits(t, p, p + 1)
    /\ Ch(t, p + 2) = "-"
    /\ \A k \in (p + 3)..(p + 5) : Ch(t, k) \in Word
    /\ Ch(t, p + 6) = "-"
    /\ AllDigits(t, p + 7, p + 10)

SpanTo10(p) == IF p = 0 THEN <<>> ELSE <<p, p + 10>>

MonthNameDateSearch(t) ==
    SpanTo10(Leftmost({p \in Starts(t, Digit) : MonthNameDateAt(t, p)}))

\* PATTERNS["date"][2]: Billed on:\s*(\d{2}\.\d{2}\.\d{4})   re.I
BilledOnSearch(t) ==
    LabelledDateAt(t, Leftmost({p \in Starts(t, {"b", "B"}) :
                                   LabelledDateAt(t, p, "billed on:", {"."}) # <<>>}),
                   "billed on:", {"."})

RECURSIVE StrToInt(_)
StrToInt(s) ==
    IF s = "" THEN 0 ELSE 10 * StrToInt(SubSeq(s, 1, Len(s) - 1)) + DigitVal[Ch(s, Len(s))]

IsLeap(y) == (y % 4 = 0 /\ y % 100 # 0) \/ y % 400 = 0

DaysInMonth(y, m) ==
    IF m = 2 THEN (IF IsLeap(y) THEN 29 ELSE 28)
    ELSE IF m \in {4, 6, 9, 11} THEN 30 ELSE 31

MonthNames == <<"jan", "feb", "mar", "apr", "may", "jun",
                "jul", "aug", "sep", "oct", "nov", "dec">>

\* strptime directive %d: 3[0-1]|[1-2]\d|0[1-9]|[1-9]| [1-9]   (0: no match)
DayOf(s) ==
    IF Len(s) = 2 /\ Ch(s, 1) = " " /\ Ch(s, 2) \in Digit \ {"0"} THEN DigitVal[Ch(s, 2)]
    ELSE IF Len(s) \in {1, 2} /\ AllDigits(s, 1, Len(s)) /\ StrToInt(s) \in 1..31
         THEN StrToInt(s) ELSE 0

\* strptime directive %m: 1[0-2]|0[1-9]|[1-9]   (0: no match)
MonthOf(s) ==
    IF Len(s) \in {1, 2} /\ AllDigits(s, 1, Len(s)) /\ StrToInt(s) \in 1..12
    THEN StrToInt(s) ELSE 0

\* strptime directive %b (re.I): the month abbreviations   (0: no match)
MonthNameOf(s) ==
    LET M == {i \in 1..12 : LowerStr(s) = MonthNames[i]}
    IN  IF M = {} THEN 0 ELSE SetMin(M)

\* strptime directive %Y: \d\d\d\d   (-1: no match)
YearOf(s) == IF Len(s) = 4 /\ AllDigits(s, 1, 4) THEN StrToInt(s) ELSE -1

\* date(y, m, d), or NoneVal for ValueError (a field unmatched, day or year out of range)
MakeDate(y, m, d) ==
    IF d # 0 /\ m # 0 /\ y >= 1 /\ d <= DaysInMonth(y, m) THEN <<y, m, d>> ELSE NoneVal

MonthField(s, named) == IF named THEN MonthNameOf(s) ELSE MonthOf(s)

\* (variant: the month-first reading, "%m<sep>%d<sep>%Y")
DateCutMonthFirst(s, a, b, named) ==
    MakeDate(YearOf(SubSeq(s, b + 1, Len(s))),
             MonthField(SubSeq(s, 1, a - 1), named),
             DayOf(SubSeq(s, a + 1, b - 1)))

\* the fields of s cut at the separators at a and b
DateCut(s, a, b, named) ==
    MakeDate(YearOf(SubSeq(s, b + 1, Len(s))),
             MonthField(SubSeq(s, a + 1, b - 1), named),
             DayOf(SubSeq(s, 1, a - 1)))

\* datetime.strptime(s, "%d<sep>%m<sep>%Y").date() or, with named, "%d<sep>%b<sep>%Y":
\* the date, or NoneVal for ValueError (s must be field, sep, field, sep, field)
StrptimeAt(s, P, named) ==
    IF Cardinality(P) # 2 THEN NoneVal ELSE DateCut(s, SetMin(P), SetMax(P), named)

Strptime(s, sep, named) == StrptimeAt(s, Starts(s, {sep}), named)

\* (variant: the list without "%d.%m.%Y")
DateFormatsNoDots == << <<"/", FALSE>>, <<"-", FALSE>>, <<"-", TRUE>> >>

\* formats_to_try, in order
DateFormats == << <<"/", FALSE>>, <<"-", FALSE>>, <<"-", TRUE>>, <<".", FALSE>> >>

RECURSIVE TryFormats(_, _)
\* return on success, `except ValueError: continue` otherwise
ParsedOrNext(s, k, parsed) == IF parsed # NoneVal THEN parsed ELSE TryFormats(s, k + 1)

TryFormats(s, k) ==
    IF k > Len(DateFormats) THEN NoneVal
    ELSE ParsedOrNext(s, k, Strptime(s, DateFormats[k][1], DateFormats[k][2]))

clean_date(date_str) == TryFormats(Strip(date_str), 1)

(***************************************************************************)
(* Amount recognition and clean_amount                                     *)
(***************************************************************************)
DigitOrComma == {c \in Digit \cup {","} : TRUE}

\* ([\d,]+\.\d{2}) at q: the group
NumberSpan(t, q, r) ==
    IF r >= q /\ Ch(t, r + 1) = "." /\ AllDigits(t, r + 2, r + 3) THEN <<q, r + 3>> ELSE <<>>

NumberAt(t, q) == NumberSpan(t, q, RunEnd(t, q, DigitOrComma))

\* label (re.I), \s+ (minSpace = 1) or \s* (minSpace = 0), ₹?, ([\d,]+\.\d{2})
\* from the end w of the white space that follows the label
AmountAfter(t, first, w, minSpace) ==
    IF w - first + 1 >= minSpace
    THEN NumberAt(t, IF Ch(t, w + 1) = "₹" THEN w + 2 ELSE w + 1)
    ELSE <<>>

AmountAt(t, p, label, minSpace) ==
    IF ~LitAt(t, p, label, TRUE) THEN <<>>
    ELSE AmountAfter(t, p + Len(label), RunEnd(t, p + Len(label), Space), minSpace)

AmountSearch(t, label, minSpace) ==
    AmountAt(t, Leftmost({p \in Starts(t, {Ch(label, 1), UpperCh(Ch(label, 1))}) :
                             AmountAt(t, p, label, minSpace) # <<>>}),
             label, minSpace)

ValueError == <<"ValueError">>

\* a decimal with its trailing zero decimals removed
RECURSIVE Norm(_, _)
Norm(n, scale) ==
    IF scale > 0 /\ n % 10 = 0 THEN Norm(n \div 10, scale - 1) ELSE <<n, scale>>

\* the digits of s around its decimal point at k, as a decimal
Decimal(s, k) ==
    Norm(StrToInt(SubSeq(s, 1, k - 1) \o SubSeq(s, k + 1, Len(s))), Len(s) - k)

\* float(s) for s made of digits and '.': ValueError unless digits[.digits] with a digit
FloatOf(s, D) ==
    IF s = "" \/ Cardinality(D) > 1 \/ \E k \in 1..Len(s) : Ch(s, k) \notin Digit \cup {"."}
    THEN ValueError
    ELSE IF D = {} THEN <<StrToInt(s), 0>>
    ELSE IF Len(s) = 1 THEN ValueError
    ELSE Decimal(s, SetMin(D))

Float(s) == FloatOf(s, Starts(s, {"."}))

\* (variant: the thousands separators are left in)
clean_amount_keeping_commas(amount_str) == Float(Strip(RemoveCh(amount_str, "₹")))

\* float(amount_str.replace(",", "").replace("₹", "").strip())
clean_amount(amount_str) == Float(Strip(RemoveCh(RemoveCh(amount_str, ","), "₹")))

(***************************************************************************)
(* Currency detection and category mapping                                 *)
(***************************************************************************)
CurrencySymbols == <<"$", "€", "£", "¥", "₹", "Rs.", "Rs">>

\* (?:\$|€|£|¥|₹|Rs\.?)\s*([\d,]+(?:\.[\d]{2})?) at p with symbol sym: span of group(0)
\* ([\d,]+(?:\.[\d]{2})?) from q to the end r of the run of [\d,]: span of group(0)
CurrencySpan(t, p, q, r) ==
    IF r < q THEN <<>>
    ELSE IF Ch(t, r + 1) = "." /\ AllDigits(t, r + 2, r + 3) THEN <<p, r + 3>>
    ELSE <<p, r>>

CurrencyNumber(t, p, q) == CurrencySpan(t, p, q, RunEnd(t, q, DigitOrComma))

CurrencyWith(t, p, sym) ==
    IF ~LitAt(t, p, sym, FALSE) THEN <<>>
    ELSE CurrencyNumber(t, p, RunEnd(t, p + Len(sym), Space) + 1)

CurrencyAlt(t, p, k) == IF k = 0 THEN <<>> ELSE CurrencyWith(t, p, CurrencySymbols[k])

CurrencyAt(t, p) ==
    CurrencyAlt(t, p, Leftmost({k \in 1..Len(CurrencySymbols) :
                                   CurrencyWith(t, p, CurrencySymbols[k]) # <<>>}))

\* (variant: the last match instead of the first)
CurrencySearchLast(t) ==
    CurrencyAt(t, Greediest({p \in Starts(t, {"$", "€", "£", "¥", "₹", "R"}) :
                                CurrencyAt(t, p) # <<>>}))

\* currency_pattern.search(chunk)
CurrencySearch(t) ==
    CurrencyAt(t, Leftmost({p \in Starts(t, {"$", "€", "£", "¥", "₹", "R"}) :
                               CurrencyAt(t, p) # <<>>}))

\* the if / elif chain over currency_match.group(0)
CurrencyOfMatch(g0) ==
    IF Contains(g0, "$") THEN "USD"
    ELSE IF Contains(g0, "€") THEN "EUR"
    ELSE IF Contains(g0, "£") THEN "GBP"
    ELSE IF Contains(g0, "¥") THEN "JPY"
    ELSE "INR"

CurrencyFor(chunk, currency_match) ==
    IF currency_match = <<>> THEN "INR" ELSE CurrencyOfMatch(Group(chunk, currency_match))

DetectCurrency(chunk) == CurrencyFor(chunk, CurrencySearch(chunk))

\* the module-level table, in insertion order
VendorCategoriesTable ==
    << <<"zomato", "Food">>, <<"swiggy", "Food">>, <<"bescom", "Utilities">>,
       <<"reliance fresh", "Groceries">>, <<"more", "Groceries">>,
       <<"jio", "Internet">>, <<"act fibernet", "Internet">> >>

\* (variant: no break, so the last matching keyword wins)
MapCategoryLast(table, vendor_lower, k) ==
    IF \A j \in k..Len(table) : ~Contains(vendor_lower, table[j][1]) THEN <<>>
    ELSE <<table[SetMax({j \in k..Len(table) : Contains(vendor_lower, table[j][1])})][2]>>

\* for keyword, category in VENDOR_CATEGORIES.items(): first keyword in vendor_lower
RECURSIVE MapCategory(_, _, _)
MapCategory(table, vendor_lower, k) ==
    IF k > Len(table) THEN <<>>
    ELSE IF Contains(vendor_lower, table[k][1]) THEN <<table[k][2]>>
    ELSE MapCategory(table, vendor_lower, k + 1)

(***************************************************************************)
(* extract_structured_data: the body of the loop for one chunk             *)
(***************************************************************************)
\* the module-level PATTERNS table: per field, the ranked patterns
PatternsTable ==
    [vendor |-> <<"label", "leading_caps", "first_line", "store">>,
     date   |-> <<"date_label", "month_name", "billed_on">>,
     amount |-> <<"total_amount", "total", "grand_total", "amount_paid">>]

\* a match object of a pattern that has no group 1
NoGroup == <<0>>

\* pattern.search(chunk): the span of group 1, NoGroup, or <<>> for no match
Search(pattern, chunk) ==
    CASE pattern = "label"        -> VendorLabelSearch(chunk)
      [] pattern = "leading_caps" -> IF LeadingCapsMatches(chunk) THEN NoGroup ELSE <<>>
      [] pattern = "first_line"   -> FirstLineSearch(chunk)
      [] pattern = "store"        -> StoreSearch(chunk)
      [] pattern = "date_label"   -> DateLabelSearch(chunk)
      [] pattern = "month_name"   -> MonthNameDateSearch(chunk)
      [] pattern = "billed_on"    -> BilledOnSearch(chunk)
      [] pattern = "total_amount" -> AmountSearch(chunk, "total amount:", 1)
      [] pattern = "total"        -> AmountSearch(chunk, "total:", 0)
      [] pattern = "grand_total"  -> AmountSearch(chunk, "grand total:", 0)
      [] pattern = "amount_paid"  -> AmountSearch(chunk, "amount paid:", 0)

Raised(e) == <<"raise", e>>
IsRaised(v) == Len(v) = 2 /\ v[1] = "raise"

\* the field's normaliser on value = match.group(1).strip(): <<value>> or Raised(..)
Normalised(field, value) ==
    IF field = "amount"
    THEN (IF clean_amount(value) = ValueError THEN Raised("ValueError")
          ELSE <<clean_amount(value)>>)
    ELSE IF field = "date" THEN <<clean_date(value)>>
    ELSE <<value>>

\* extracted[field] = normaliser(match.group(1).strip())
FieldValue(field, chunk, m) ==
    IF m = NoGroup THEN Raised("IndexError") ELSE Normalised(field, Strip(Group(chunk, m)))

\* for pattern in patterns: ... break   -- <<>> (key never set), <<value>> or Raised(..)
RECURSIVE TryPatterns(_, _, _, _)
MatchOrNext(field, patterns, k, chunk, match) ==
    IF match # <<>> THEN FieldValue(field, chunk, match)
    ELSE TryPatterns(field, patterns, k + 1, chunk)

TryPatterns(field, patterns, k, chunk) ==
    IF k > Len(patterns) THEN <<>>
    ELSE MatchOrNext(field, patterns, k, chunk, Search(patterns[k], chunk))

\* the vendor field: the all-caps line first, the ranked patterns otherwise
AllCapsOrPatterns(patterns, chunk, match) ==
    IF match # <<>> THEN <<Strip(Group(chunk, match))>>
    ELSE TryPatterns("vendor", patterns.vendor, 1, chunk)

VendorField(patterns, chunk) == AllCapsOrPatterns(patterns, chunk, AllCapsSearch(chunk))

\* the dict `extracted` once the loop over the fields has ended, with exc the exception
\* that ended it ("" when none)
Extracted(v, d, a) ==
    IF IsRaised(v) THEN [exc |-> v[2], vendor |-> <<>>, date |-> <<>>, amount |-> <<>>]
    ELSE IF IsRaised(a) THEN [exc |-> a[2], vendor |-> v, date |-> d, amount |-> <<>>]
    ELSE [exc |-> "", vendor |-> v, date |-> d, amount |-> a]

\* for field, patterns in PATTERNS.items(): vendor, then date, then amount
ExtractFields(patterns, chunk) ==
    Extracted(VendorField(patterns, chunk),
              TryPatterns("date", patterns.date, 1, chunk),
              TryPatterns("amount", patterns.amount, 1, chunk))

\* all(k in extracted for k in ['vendor', 'date', 'amount'])
HasEssentials(extracted) ==
    extracted.vendor # <<>> /\ extracted.date # <<>> /\ extracted.amount # <<>>

\* extracted.get("category", "Uncategorized")
CategoryOr(cat) == IF cat = <<>> THEN "Uncategorized" ELSE cat[1]

\* (variant: the raw text stored without its surrounding white space)
BuildReceiptTrimmed(categories, chunk, extracted) ==
    [vendor           |-> extracted.vendor[1],
     transaction_date |-> extracted.date[1],
     total_amount     |-> extracted.amount[1],
     category         |-> CategoryOr(MapCategory(categories, LowerStr(extracted.vendor[1]), 1)),
     currency         |-> DetectCurrency(chunk),
     raw_text         |-> Strip(chunk)]

\* the dict appended to receipts
BuildReceipt(categories, chunk, extracted) ==
    [vendor           |-> extracted.vendor[1],
     transaction_date |-> extracted.date[1],
     total_amount     |-> extracted.amount[1],
     category         |-> CategoryOr(MapCategory(categories, LowerStr(extracted.vendor[1]), 1)),
     currency         |-> DetectCurrency(chunk),
     raw_text         |-> chunk]

\* the body after the loop over the fields
Validate(categories, chunk, extracted) ==
    IF extracted.exc # "" THEN Raised(extracted.exc)
    ELSE IF ~HasEssentials(extracted) THEN <<"skip">>
    ELSE <<"append", BuildReceipt(categories, chunk, extracted)>>

\* one pass of the loop body: <<"skip">>, Raised(..) or <<"append", receipt>>
ProcessChunk(categories, patterns, chunk) ==
    IF IsBlank(chunk) THEN <<"skip">>
    ELSE Validate(categories, chunk, ExtractFields(patterns, chunk))

(***************************************************************************)
(* Input documents                                                         *)
(***************************************************************************)
MaxSegs == 2
MaxCalls == 2

Calls == 1..MaxCalls

\* the lines a candidate receipt is made of ("" : the line is left out)
VendorLines == {"STARBUCKS\n", "ZOMATO LTD\n", "Coffee Shop\n", "Cafe 21\n",
                "From: Unknown Shop\n", "Sold by: More Jio\n", ""}
DateLines   == {"Date: 01/02/2024\n", "Date: 31/02/2024\n", "Date: 2025-07-20\n",
                "Date: 20/07/2025\n", "Date: 20-07-2025\n", "20-Jul-2025\n",
                "Billed on: 20.07.2025\n", ""}
AmountLines == {"Total: ₹450.00", "Total: ₹1,234.56", "Grand Total: 999.00",
                "Total: abc", "Total: ₹450.00\nTip: $45.00", "Tip: $45.00\nTotal: ₹450.00", ""}
Endings     == {"", "\n", "\n\n"}

\* single receipts: every combination of the lines
Segments == {v \o d \o a \o e : v \in VendorLines, d \in DateLines, a \in AmountLines, e \in Endings}

\* the receipts of a multi-receipt document
BatchSegments ==
    {"STARBUCKS\nDate: 01/02/2024\nTotal: ₹450.00\n",
     "From: Unknown Shop\n20-Jul-2025\nGrand Total: 999.00",
     "Cafe 21\nBilled on: 20.07.2025\nTotal: $45.00",
     "ZOMATO LTD\nDate: 01/02/2024\n",
     "Coffee Shop\nDate: 01/02/2024\n",
     "SHOP\nDate: 31/02/2024\nTotal: 1,234.56",
     "SHOP\nDate: 2025-07-20\nTotal: 5.00\n",
     "Coffee Shop\nDate: 01/02/2024\nTotal: ₹450.00",
     " "}

SeparatorLines == {"\n===\n", "\n-----\n"}

RECURSIVE BatchOf(_)
BatchOf(n) ==
    IF n = 1 THEN BatchSegments
    ELSE {d \o s \o g : d \in BatchOf(n - 1), s \in SeparatorLines, g \in BatchSegments}

\* receipts with the rarer layouts: separator lines at the edges of the text or one
\* after the other, dates no format parses, vendor lines, amount labels, currencies
EdgeDocs ==
    {"===\nSTARBUCKS\nDate: 01/02/2024\nTotal: ₹450.00\n",
     "STARBUCKS\nDate: 01/02/2024\nTotal: ₹450.00\n---",
     "STARBUCKS\nDate: 01/02/2024\nTotal: ₹450.00\n===\n---\nSHOP\nDate: 01/02/2024\nTotal: 5.00",
     "STARBUCKS\nDate: 01/02/2024\n--\nTotal: ₹450.00",
     "SHOP\nDate: 20/07-2025\nTotal: 5.00",
     "SHOP\n20-Xyz-2025\nTotal: 5.00",
     "ACME\nFOODS\nDate: 01/02/2024\nTotal: 5.00",
     "From: Joe\nSTARBUCKS\nDate: 01/02/2024\nTotal: 5.00",
     "Cafe 21\nA & B\nDate: 01/02/2024\nTotal: 5.00",
     "ACME\nDate: 01/02/2024\nTotal: 5.00\nTHANK YOU",
     "Cafe 21\nDate: 01/02/2024\nTotal: 5.00\n \nBYE",
     "Cafe Store 7: Foo Mart, Date: 01/02/2024, Total: 5.00",
     "SHOP\nDate: 01/02/2024\nAmount Paid: 10.00\nTotal: 20.00",
     "SHOP\nDate: 01/02/2024\nTotal: 20.00\nAmount Paid: 10.00",
     "SHOP\nDate: 01/02/2024\nTotal Amount:₹12.00",
     "SHOP\nDate: 01/02/2024\nTotal Amount: ₹12.00",
     "SHOP\nDate: 01/02/2024\nAmount Paid: ₹1,000.50",
     "SHOP\nDate: 01/02/2024\nTotal: 5.00\nPaid €9.00",
     "SHOP\nDate: 01/02/2024\nTotal: 5.00\nPaid £3.50",
     "SHOP\nDate: 01/02/2024\nTotal: 5.00\nPaid ¥700",
     "SHOP\nDate: 01/02/2024\nTotal: 5.00\nPaid Rs. 450.00",
     "SHOP\nDate: 01/02/2024\nTotal: 5.00\nTip: $ 45.00 and ₹450.00",
     "SHOP\nDate: 01/02/2024\nTotal: 5.00\nin $, or €9.00",
     "SHOP\nDate: 01/02/2024\nTotal: 5.00\nin $ or €9.00"}

Docs == Segments \cup UNION {BatchOf(n) : n \in 2..MaxSegs} \cup EdgeDocs

(***************************************************************************)
(* The calls of extract_structured_data(text)                              *)
(***************************************************************************)
InitGlobals ==
    /\ VENDOR_CATEGORIES = VendorCategoriesTable
    /\ PATTERNS = PatternsTable

InitLocals ==
    /\ chunks = [c \in Calls |-> <<>>]
    /\ idx = [c \in Calls |-> 0]
    /\ receipts = [c \in Calls |-> <<>>]
    /\ result = [c \in Calls |-> <<>>]
    /\ exc = [c \in Calls |-> ""]

\* no upload request, an empty receipts table
NoFile == [filename |-> "", contents |-> ""]

InitNoUpload ==
    /\ file = [c \in Calls |-> NoFile]
    /\ upc = [c \in Calls |-> "none"]
    /\ at = [c \in Calls |-> 0]
    /\ created_receipts = [c \in Calls |-> <<>>]
    /\ db = <<>>

\* one call, on any document
Init ==
    /\ InitGlobals
    /\ InitLocals
    /\ InitNoUpload
    /\ \E d \in Docs : text = [c \in Calls |-> IF c = 1 THEN d ELSE ""]
    /\ pc = [c \in Calls |-> IF c = 1 THEN "start" ELSE "idle"]

\* (variant: one accumulator shared by the calls, never cleared)
SharedReceipts(c) == receipts[1]

\* receipts = []  -- a list local to the call
FreshReceipts(c) == <<>>

\* receipts = [] ; chunks = re.split(...)
Enter(c) ==
    /\ pc[c] = "start"
    /\ receipts' = [receipts EXCEPT ![c] = FreshReceipts(c)]
    /\ chunks' = [chunks EXCEPT ![c] = Split(text[c])]
    /\ idx' = [idx EXCEPT ![c] = 1]
    /\ pc' = [pc EXCEPT ![c] = "loop"]
    /\ UNCHANGED <<VENDOR_CATEGORIES, PATTERNS, text, result, exc>>
    /\ UNCHANGED uvars

\* for chunk in chunks: one pass of the body
Iterate(c) ==
    /\ pc[c] = "loop"
    /\ idx[c] <= Len(chunks[c])
    /\ \E r \in {ProcessChunk(VENDOR_CATEGORIES, PATTERNS, chunks[c][idx[c]])} :
           IF IsRaised(r)
           THEN /\ pc' = [pc EXCEPT ![c] = "raised"]
                /\ exc' = [exc EXCEPT ![c] = r[2]]
                /\ UNCHANGED <<idx, receipts>>
           ELSE /\ idx' = [idx EXCEPT ![c] = idx[c] + 1]
                /\ receipts' = [receipts EXCEPT ![c] =
                                   IF r[1] = "append" THEN Append(receipts[c], r[2]) ELSE @]
                /\ UNCHANGED <<pc, exc>>
    /\ UNCHANGED <<VENDOR_CATEGORIES, PATTERNS, text, chunks, result>>
    /\ UNCHANGED uvars

\* return receipts
Return(c) ==
    /\ pc[c] = "loop"
    /\ idx[c] > Len(chunks[c])
    /\ result' = [result EXCEPT ![c] = receipts[c]]
    /\ pc' = [pc EXCEPT ![c] = "done"]
    /\ UNCHANGED <<VENDOR_CATEGORIES, PATTERNS, text, chunks, idx, receipts, exc>>
    /\ UNCHANGED uvars

Next == \E c \in Calls : Enter(c) \/ Iterate(c) \/ Return(c)

Spec == Init /\ [][Next]_vars

\* the documents of concurrent requests
ConcDocs ==
    {"STARBUCKS\nDate: 01/02/2024\nTotal: ₹450.00\n",
     "ZOMATO LTD\nDate: 01/02/2024\nTip: $45.00\nTotal: ₹450.00\n===\nFrom: Unknown Shop\n20-Jul-2025\nGrand Total: 999.00",
     "Coffee Shop\nDate: 01/02/2024\nTotal: ₹450.00\n",
     "SHOP\nDate: 31/02/2024\n"}

\* MaxCalls calls in flight at once, each on its own document
ConcInit ==
    /\ InitGlobals
    /\ InitLocals
    /\ InitNoUpload
    /\ text \in [Calls -> ConcDocs]
    /\ pc = [c \in Calls |-> "start"]

SpecConc == ConcInit /\ [][Next]_vars

(***************************************************************************)
(* POST /receipts/upload: upload_and_process_receipt (backend/main.py),    *)
(* with process_file_to_text, schemas.ReceiptCreate and crud.create_receipt *)
(***************************************************************************)
\* contents that are not UTF-8
BadBytes == "<bytes that are not UTF-8>"

\* what OCR or the PDF text layer may give for an image or a PDF
OcrTexts == {"", "STARBUCKS\nDate: 01/02/2024\nTotal: ₹450.00\n"}

\* the texts uploaded
UploadDocs ==
    {"", " \n",
     "STARBUCKS\nDate: 01/02/2024\nTotal: ₹450.00\n",
     "ZOMATO LTD\nDate: 01/02/2024\nTip: $45.00\nTotal: ₹450.00\n===\nFrom: Unknown Shop\n20-Jul-2025\nGrand Total: 999.00",
     "Coffee Shop\nDate: 01/02/2024\nTotal: ₹450.00\n",
     "ZOMATO LTD\nDate: 01/02/2024\n",
     "STARBUCKS\nDate: 01/02/2024\nTotal: ₹450.00\n===\nSHOP\nDate: 31/02/2024\nTotal: 1,234.56",
     "SHOP\nDate: 31/02/2024\nTotal: 1,234.56\n===\nSTARBUCKS\nDate: 01/02/2024\nTotal: ₹450.00\n",
     "Cafe 21\nDate: 01/02/2024\nTotal: ₹450.00\n\n",
     BadBytes}

\* the files uploaded: text files of any contents, and files of other kinds
UploadFiles ==
    {[filename |-> "a.txt", contents |-> d] : d \in UploadDocs}
        \cup {[filename |-> n, contents |-> "STARBUCKS\nDate: 01/02/2024\nTotal: ₹450.00\n"] :
                  n \in {"b.TXT", "c.png", "d.pdf", "e.exe", ""}}

\* filename.split(".")[-1].lower()
ExtensionOf(filename) ==
    LowerStr(SubSeq(filename, Greediest(Starts(filename, {"."})) + 1, Len(filename)))

Text(t) == [err |-> "", text |-> t]
Failure(e) == [err |-> e, text |-> ""]

\* process_file_to_text(file): the outcomes, a text or an exception
process_file_to_text(f) ==
    IF f.filename = "" THEN {Text("")}
    ELSE IF ExtensionOf(f.filename) = "txt"
         THEN {IF f.contents = BadBytes THEN Failure("UnicodeDecodeError") ELSE Text(f.contents)}
    ELSE IF ExtensionOf(f.filename) \in {"jpg", "jpeg", "png", "pdf"}
         THEN {Text(t) : t \in OcrTexts}
    ELSE {Failure("HTTP415")}

\* str.isspace()
IsSpace(s) == s # "" /\ \A i \in 1..Len(s) : Ch(s, i) \in Space

ValidationError == [error |-> "ValidationError"]

\* schemas.ReceiptCreate(vendor=..., transaction_date=..., total_amount=..., category=...,
\* raw_text=..., original_filename=...): transaction_date must be a date; currency is
\* not passed and takes the default of ReceiptBase
ReceiptCreate(receipt_data, filename) ==
    IF receipt_data.transaction_date = NoneVal THEN ValidationError
    ELSE [vendor            |-> receipt_data.vendor,
          transaction_date  |-> receipt_data.transaction_date,
          total_amount      |-> receipt_data.total_amount,
          currency          |-> "INR",
          category          |-> receipt_data.category,
          original_filename |-> filename,
          raw_text          |-> receipt_data.raw_text]

\* models.Receipt(**receipt.model_dump()) once added, committed and refreshed:
\* the row with its primary key
create_receipt(table, receipt) ==
    [id                |-> Len(table) + 1,
     vendor            |-> receipt.vendor,
     transaction_date  |-> receipt.transaction_date,
     total_amount      |-> receipt.total_amount,
     currency          |-> receipt.currency,
     category          |-> receipt.category,
     original_filename |-> receipt.original_filename,
     raw_text          |-> receipt.raw_text]

\* the handler is a coroutine that never awaits once the file is read: the event
\* loop runs no other request before it ends
LoopFree(c) == \A o \in Calls \ {c} : upc[o] \notin {"parsing", "persisting"}

\* steps 1 and 2, and the call of step 3
StartUpload(c) ==
    /\ upc[c] = "request"
    /\ LoopFree(c)
    /\ \E out \in process_file_to_text(file[c]) :
           IF out.err # ""
           THEN /\ upc' = [upc EXCEPT ![c] = IF out.err = "HTTP415" THEN "http415" ELSE "http500"]
                /\ UNCHANGED <<text, pc>>
           ELSE IF out.text = "" \/ IsSpace(out.text)
           THEN /\ upc' = [upc EXCEPT ![c] = "http422"]
                /\ UNCHANGED <<text, pc>>
           ELSE /\ upc' = [upc EXCEPT ![c] = "parsing"]
                /\ text' = [text EXCEPT ![c] = out.text]
                /\ pc' = [pc EXCEPT ![c] = "start"]
    /\ UNCHANGED <<VENDOR_CATEGORIES, PATTERNS, chunks, idx, receipts, result, exc>>
    /\ UNCHANGED <<file, at, created_receipts, db>>

\* step 3 raised: the exception leaves the handler
ParseFailed(c) ==
    /\ upc[c] = "parsing"
    /\ pc[c] = "raised"
    /\ upc' = [upc EXCEPT ![c] = "http500"]
    /\ UNCHANGED <<VENDOR_CATEGORIES, PATTERNS, pc, text, chunks, idx, receipts, result, exc>>
    /\ UNCHANGED <<file, at, created_receipts, db>>

\* step 4: if not parsed_receipts ... ; created_receipts = []
Parsed(c) ==
    /\ upc[c] = "parsing"
    /\ pc[c] = "done"
    /\ IF result[c] = <<>>
       THEN /\ upc' = [upc EXCEPT ![c] = "http422"]
            /\ UNCHANGED <<at, created_receipts>>
       ELSE /\ upc' = [upc EXCEPT ![c] = "persisting"]
            /\ at' = [at EXCEPT ![c] = 1]
            /\ created_receipts' = [created_receipts EXCEPT ![c] = <<>>]
    /\ UNCHANGED <<VENDOR_CATEGORIES, PATTERNS, pc, text, chunks, idx, receipts, result, exc>>
    /\ UNCHANGED <<file, db>>

\* steps 5 and 6 for one of parsed_receipts
PersistOne(c) ==
    /\ upc[c] = "persisting"
    /\ at[c] <= Len(result[c])
    /\ \E receipt_to_create \in {ReceiptCreate(result[c][at[c]], file[c].filename)} :
           IF receipt_to_create = ValidationError
           THEN /\ upc' = [upc EXCEPT ![c] = "http500"]
                /\ UNCHANGED <<at, created_receipts, db>>
           ELSE /\ db' = Append(db, create_receipt(db, receipt_to_create))
                /\ created_receipts' = [created_receipts EXCEPT ![c] =
                                            Append(@, create_receipt(db, receipt_to_create))]
                /\ at' = [at EXCEPT ![c] = at[c] + 1]
                /\ UNCHANGED upc
    /\ UNCHANGED <<VENDOR_CATEGORIES, PATTERNS, pc, text, chunks, idx, receipts, result, exc>>
    /\ UNCHANGED file

\* return created_receipts
Respond(c) ==
    /\ upc[c] = "persisting"
    /\ at[c] > Len(result[c])
    /\ upc' = [upc EXCEPT ![c] = "http201"]
    /\ UNCHANGED <<VENDOR_CATEGORIES, PATTERNS, pc, text, chunks, idx, receipts, result, exc>>
    /\ UNCHANGED <<file, at, created_receipts, db>>

\* MaxCalls upload requests, each with its file, on an empty table
UploadInit ==
    /\ InitGlobals
    /\ InitLocals
    /\ text = [c \in Calls |-> ""]
    /\ pc = [c \in Calls |-> "idle"]
    /\ file \in [Calls -> UploadFiles]
    /\ upc = [c \in Calls |-> "request"]
    /\ at = [c \in Calls |-> 0]
    /\ created_receipts = [c \in Calls |-> <<>>]
    /\ db = <<>>

UploadNext ==
    \E c \in Calls :
        \/ StartUpload(c)
        \/ Enter(c) \/ Iterate(c) \/ Return(c)
        \/ ParseFailed(c)
        \/ Parsed(c)
        \/ PersistOne(c)
        \/ Respond(c)

SpecUpload == UploadInit /\ [][UploadNext]_vars

(***************************************************************************)
(* extract_structured_data as a function of its input                      *)
(***************************************************************************)
RECURSIVE ExtractFrom(_, _, _, _, _)
AfterChunk(categories, patterns, cs, k, acc, r) ==
    IF IsRaised(r) THEN [pc |-> "raised", exc |-> r[2], result |-> <<>>]
    ELSE ExtractFrom(categories, patterns, cs, k + 1,
                     IF r[1] = "append" THEN Append(acc, r[2]) ELSE acc)

ExtractFrom(categories, patterns, cs, k, acc) ==
    IF k > Len(cs) THEN [pc |-> "done", exc |-> "", result |-> acc]
    ELSE AfterChunk(categories, patterns, cs, k, acc, ProcessChunk(categories, patterns, cs[k]))

extract_structured_data(t) ==
    ExtractFrom(VendorCategoriesTable, PatternsTable, Split(t), 1, <<>>)

Ended(c) == pc[c] \in {"done", "raised"}

\* the records returned by call c (none when it raised or has not returned)
Returned(c) == IF pc[c] = "done" THEN result[c] ELSE <<>>

RecordsOf(c, chunk) == {i \in 1..Len(Returned(c)) : Returned(c)[i].raw_text = chunk}

(***************************************************************************)
(* Properties                                                              *)
(***************************************************************************)
\* the records returned, as (call, index), and the chunks, as (call, index)
Records == UNION {{<<c, i>> : i \in 1..Len(Returned(c))} : c \in Calls}
Chunks  == UNION {{<<c, k>> : k \in 1..Len(chunks[c])} : c \in Calls}

Rec(ci) == Returned(ci[1])[ci[2]]
Chunk(ck) == chunks[ck[1]][ck[2]]

\* the chunk has one of the lines of Lines and none of the other lines of All
OnlyLineOf(chunk, Lines, All) ==
    /\ \E l \in Lines : Contains(chunk, l)
    /\ \A l \in All \ (Lines \cup {""}) : ~Contains(chunk, l)

\* C1: every record returned has a non-empty vendor, a non-null transaction date
\* and a non-null total amount.
C1_RecordsComplete ==
    \A ci \in Records :
        /\ Rec(ci).vendor # ""
        /\ Rec(ci).transaction_date # NoneVal
        /\ Rec(ci).total_amount # NoneVal

\* C2: extract_structured_data never raises, whatever the segments hold.
C2_NeverRaises == \A c \in Calls : pc[c] # "raised"

\* what each chunk gives when it is the whole document, one after the other
RECURSIVE AloneRecords(_, _)
AloneRecords(cs, k) ==
    IF k > Len(cs) THEN <<>>
    ELSE extract_structured_data(cs[k]).result \o AloneRecords(cs, k + 1)

\* a field of the chunk is missing: its recognizer finds nothing
Missing(chunk) ==
    \/ VendorField(PatternsTable, chunk) = <<>>
    \/ TryPatterns("date", PatternsTable.date, 1, chunk) = <<>>
    \/ TryPatterns("amount", PatternsTable.amount, 1, chunk) = <<>>

\* C3: isolation -- a segment missing its vendor, date or amount gives no record, and
\* in a document of several segments the call returns, and what it returns is what
\* each segment gives when extracted alone, whatever the sibling segments hold.
C3_Isolation ==
    /\ \A ck \in Chunks : Missing(Chunk(ck)) => RecordsOf(ck[1], Chunk(ck)) = {}
    /\ \A c \in Calls :
           (Ended(c) /\ Len(chunks[c]) >= 2)
               => (pc[c] = "done" /\ result[c] = AloneRecords(chunks[c], 1))

\* a value was found and parsed
Resolved(v) == v # <<>> /\ ~IsRaised(v) /\ v[1] # NoneVal

\* the recognizer rules resolve a vendor (at the least the first non-empty line),
\* a date and an amount in the chunk
Resolvable(chunk) ==
    /\ ~IsBlank(chunk)
    /\ Resolved(TryPatterns("date", PatternsTable.date, 1, chunk))
    /\ Resolved(TryPatterns("amount", PatternsTable.amount, 1, chunk))

\* C4: when every one of the N segments has a resolvable vendor, date and amount,
\* N records are returned, the i-th from the i-th segment.
C4_AllResolvable ==
    \A c \in Calls :
        (Ended(c) /\ \A k \in 1..Len(chunks[c]) : Resolvable(chunks[c][k]))
            => /\ pc[c] = "done"
               /\ Len(result[c]) = Len(chunks[c])
               /\ \A i \in 1..Len(result[c]) : result[c][i].raw_text = chunks[c][i]

StarbucksDoc == "STARBUCKS\nDate: 01/02/2024\nTotal: ₹450.00\n"

\* C5: the STARBUCKS document gives exactly one record: vendor STARBUCKS, date
\* 2024-02-01 (day first), amount 450.00, currency INR, category Uncategorized.
C5_Starbucks ==
    \A c \in Calls :
        (Ended(c) /\ text[c] = StarbucksDoc)
            => /\ pc[c] = "done"
               /\ result[c] = << [vendor           |-> "STARBUCKS",
                                  transaction_date |-> <<2024, 2, 1>>,
                                  total_amount     |-> <<450, 0>>,
                                  category         |-> "Uncategorized",
                                  currency         |-> "INR",
                                  raw_text         |-> StarbucksDoc] >>

C5_Witness == \E c \in Calls : pc[c] = "done" /\ text[c] = StarbucksDoc /\ Len(result[c]) = 1

DayFirstLines == {"Date: 20/07/2025\n", "Date: 20-07-2025\n", "20-Jul-2025\n",
                  "Billed on: 20.07.2025\n"}
YearFirstLines == {"Date: 2025-07-20\n"}

\* C6: clean_date gives 2025-07-20 for each of 20/07/2025, 20-07-2025, 20-Jul-2025,
\* 20.07.2025 and nothing for 2025-07-20; a record of a segment dated in a day-first
\* form carries 2025-07-20; in a segment whose only date is 2025-07-20 the date step
\* finds no date without raising, and the segment gives no record.
C6_DateForms ==
    /\ \A d \in {"20/07/2025", "20-07-2025", "20-Jul-2025", "20.07.2025"} :
           clean_date(d) = <<2025, 7, 20>>
    /\ clean_date("2025-07-20") = NoneVal
    /\ \A ci \in Records :
           OnlyLineOf(Rec(ci).raw_text, DayFirstLines, DateLines)
               => Rec(ci).transaction_date = <<2025, 7, 20>>
    /\ \A ck \in Chunks :
           OnlyLineOf(Chunk(ck), YearFirstLines, DateLines)
               => /\ TryPatterns("date", PATTERNS.date, 1, Chunk(ck)) = <<>>
                  /\ RecordsOf(ck[1], Chunk(ck)) = {}

C6_Witness ==
    \E c \in Calls :
        /\ pc[c] = "done"
        /\ Len(chunks[c]) = 2
        /\ OnlyLineOf(chunks[c][1], {"20-Jul-2025\n"}, DateLines)
        /\ OnlyLineOf(chunks[c][2], YearFirstLines, DateLines)
        /\ Len(result[c]) = 1
        /\ result[c][1].transaction_date = <<2025, 7, 20>>

\* C7: "Total: ₹1,234.56" gives 1234.56 and "Grand Total: 999.00" gives 999.00; a
\* segment whose amount is "Total: abc" gives no record; clean_amount never fails
\* (no call ends in ValueError).
C7_Amounts ==
    /\ \A c \in Calls : exc[c] # "ValueError"
    /\ \A ci \in Records :
           /\ OnlyLineOf(Rec(ci).raw_text, {"Total: ₹1,234.56"}, AmountLines)
                  => Rec(ci).total_amount = <<123456, 2>>
           /\ OnlyLineOf(Rec(ci).raw_text, {"Grand Total: 999.00"}, AmountLines)
                  => Rec(ci).total_amount = <<999, 0>>
    /\ \A ck \in Chunks :
           OnlyLineOf(Chunk(ck), {"Total: abc"}, AmountLines)
               => RecordsOf(ck[1], Chunk(ck)) = {}

C7_Witness ==
    \E ci \in Records :
        /\ Contains(Rec(ci).raw_text, "Total: ₹1,234.56")
        /\ Rec(ci).total_amount = <<123456, 2>>

\* the symbols the currency pattern starts with
SymbolTexts == {"$", "€", "£", "¥", "₹", "Rs"}

NoSymbolIn(s) == \A sym \in SymbolTexts : ~Contains(s, sym)

\* the text before the first occurrence of needle in hay
Before(hay, needle) ==
    SubSeq(hay, 1, SetMin({p \in 1..Len(hay) : LitAt(hay, p, needle, FALSE)}) - 1)

\* C8 as stated: a segment with "$45.00" anywhere gives USD, one without any
\* currency symbol gives INR.
C8_DollarAnywhere ==
    \A ci \in Records :
        /\ Contains(Rec(ci).raw_text, "$45.00") => Rec(ci).currency = "USD"
        /\ NoSymbolIn(Rec(ci).raw_text) => Rec(ci).currency = "INR"

\* C8 amended: a segment in which no currency symbol comes before its first
\* "$45.00" gives USD, one without any currency symbol gives INR.
C8_DollarFirst ==
    \A ci \in Records :
        /\ (Contains(Rec(ci).raw_text, "$45.00")
               /\ NoSymbolIn(Before(Rec(ci).raw_text, "$45.00")))
               => Rec(ci).currency = "USD"
        /\ NoSymbolIn(Rec(ci).raw_text) => Rec(ci).currency = "INR"

C8_Witness ==
    \E ci \in Records :
        /\ Contains(Rec(ci).raw_text, "$45.00")
        /\ Contains(Rec(ci).raw_text, "₹450.00")
        /\ Rec(ci).currency = "USD"

\* the keywords that are substrings of the lower-cased vendor, as table indices
KeywordsIn(vendor) ==
    {k \in 1..Len(VendorCategoriesTable) :
        Contains(LowerStr(vendor), VendorCategoriesTable[k][1])}

\* C9: the category is that of the first keyword, in table order, that is a substring
\* of the lower-cased vendor, Uncategorized when there is none; ZOMATO LTD gives
\* Food, Unknown Shop gives Uncategorized.
C9_Category ==
    \A ci \in Records :
        /\ KeywordsIn(Rec(ci).vendor) = {} => Rec(ci).category = "Uncategorized"
        /\ KeywordsIn(Rec(ci).vendor) # {}
               => Rec(ci).category = VendorCategoriesTable[SetMin(KeywordsIn(Rec(ci).vendor))][2]
        /\ Rec(ci).vendor = "ZOMATO LTD" => Rec(ci).category = "Food"
        /\ Rec(ci).vendor = "Unknown Shop" => Rec(ci).category = "Uncategorized"

C9_Witness ==
    \E ci \in Records :
        /\ Rec(ci).vendor = "More Jio"
        /\ Cardinality(KeywordsIn(Rec(ci).vendor)) = 2
        /\ Rec(ci).category = "Groceries"

\* C10: a call's outcome is a function of its own input alone, so two calls on the
\* same input end alike however they are interleaved with other calls, and no call
\* changes PATTERNS or VENDOR_CATEGORIES.
C10_Pure ==
    /\ \A c \in Calls :
           Ended(c) => [pc |-> pc[c], exc |-> exc[c], result |-> result[c]]
                           = extract_structured_data(text[c])
    /\ \A a, b \in Calls :
           (Ended(a) /\ Ended(b) /\ text[a] = text[b])
               => (pc[a] = pc[b] /\ exc[a] = exc[b] /\ result[a] = result[b])
    /\ PATTERNS = PatternsTable
    /\ VENDOR_CATEGORIES = VendorCategoriesTable

C10_Witness ==
    \E a, b \in Calls :
        /\ a # b
        /\ pc[a] = "done" /\ pc[b] = "done"
        /\ text[a] = text[b]
        /\ Len(result[a]) = 2 /\ result[a] = result[b]

\* the strictly increasing maps of n records into the first m chunks
OrderedMaps(n, m) ==
    {f \in [1..n -> 1..m] : \A i, j \in 1..n : i < j => f[i] < f[j]}

\* the non-blank chunks among the first m chunks of call c
NonBlank(c, m) == {k \in 1..m : ~IsBlank(chunks[c][k])}

\* C11: at every point of a call the records built so far are no more than the
\* non-blank segments gone through, each record's raw_text is exactly the text of
\* a non-blank segment, and the records come in the order of their segments; the
\* list returned is the list built.
C11_OrderAndRawText ==
    \A c \in Calls :
        /\ pc[c] \in {"loop", "done"} =>
               /\ Len(receipts[c]) <= Cardinality(NonBlank(c, idx[c] - 1))
               /\ \E f \in OrderedMaps(Len(receipts[c]), idx[c] - 1) :
                      \A i \in 1..Len(receipts[c]) :
                          /\ f[i] \in NonBlank(c, idx[c] - 1)
                          /\ receipts[c][i].raw_text = chunks[c][f[i]]
        /\ pc[c] = "done" => result[c] = receipts[c]

C11_Witness ==
    \E c \in Calls :
        /\ pc[c] = "done"
        /\ Len(chunks[c]) = 2
        /\ Len(result[c]) = 1
        /\ result[c][1].raw_text = chunks[c][2]
        /\ chunks[c][2] # Strip(chunks[c][2])

\* the lines of t: the text between its "\n"
RECURSIVE LinesFrom(_, _)
LinesCut(t, start, nl) ==
    IF nl = 0 THEN <<SubSeq(t, start, Len(t))>>
    ELSE <<SubSeq(t, start, nl - 1)>> \o LinesFrom(t, nl + 1)

LinesFrom(t, start) == LinesCut(t, start, Leftmost({p \in start..Len(t) : Ch(t, p) = "\n"}))

TextLines(t) == LinesFrom(t, 1)

\* a line made of three or more '-' or of three or more '=' and nothing else
IsSeparatorLine(l) ==
    Len(l) >= 3 /\ \E c \in {"-", "="} : \A i \in 1..Len(l) : Ch(l, i) = c

\* a piece in the making: <<>> before its first line, <<text>> after
WithLine(cur, l) == IF cur = <<>> THEN <<l>> ELSE <<cur[1] \o "\n" \o l>>
PieceText(cur) == IF cur = <<>> THEN "" ELSE cur[1]

\* the pieces of the lines ls between its separator lines
RECURSIVE PiecesOf(_, _, _)
PiecesOf(ls, k, cur) ==
    IF k > Len(ls) THEN <<PieceText(cur)>>
    ELSE IF IsSeparatorLine(ls[k]) THEN <<PieceText(cur)>> \o PiecesOf(ls, k + 1, <<>>)
    ELSE PiecesOf(ls, k + 1, WithLine(cur, ls[k]))

Pieces(t) == PiecesOf(TextLines(t), 1, <<>>)

NotBlank(piece) == ~IsBlank(piece)

HasSeparatorLine(t) == \E k \in 1..Len(TextLines(t)) : IsSeparatorLine(TextLines(t)[k])

\* C12: the segments processed (the non-blank chunks) are the non-blank pieces of the
\* text between its separator lines, in order; no segment processed holds a separator
\* line; a text without separator line is the single segment.
C12_Segmentation ==
    \A c \in Calls :
        pc[c] \in {"loop", "done", "raised"} =>
            /\ SelectSeq(chunks[c], NotBlank) = SelectSeq(Pieces(text[c]), NotBlank)
            /\ \A k \in 1..Len(chunks[c]) :
                   NotBlank(chunks[c][k]) => ~HasSeparatorLine(chunks[c][k])
            /\ ~HasSeparatorLine(text[c]) => chunks[c] = <<text[c]>>

\* the request has ended, with its status
Responded(c) == upc[c] \in {"http201", "http415", "http422", "http500"}

\* the positions in the table of the rows request c created
RowsOf(c) == {i \in 1..Len(db) : \E j \in 1..Len(created_receipts[c]) : db[i] = created_receipts[c][j]}

\* row and record agree on what the engine recognised
RowOfRecord(row, rec) ==
    /\ row.vendor = rec.vendor
    /\ row.transaction_date = rec.transaction_date
    /\ row.total_amount = rec.total_amount
    /\ row.raw_text = rec.raw_text

\* C13: an upload whose text is empty or white space is rejected and persists
\* nothing; so is one for which the engine returns no record; an upload for which
\* the engine returns records persists one row per record, in the order returned.
C13_UploadRejection ==
    \A c \in Calls :
        Responded(c) =>
            /\ (ExtensionOf(file[c].filename) = "txt" /\ IsBlank(file[c].contents))
                   => (upc[c] = "http422" /\ RowsOf(c) = {})
            /\ upc[c] = "http422" => RowsOf(c) = {}
            /\ (pc[c] = "done" /\ result[c] = <<>>) => (upc[c] = "http422" /\ RowsOf(c) = {})
            /\ (pc[c] = "done" /\ result[c] # <<>>)
                   => /\ Len(created_receipts[c]) = Len(result[c])
                      /\ Cardinality(RowsOf(c)) = Len(result[c])
                      /\ \A i \in 1..Len(created_receipts[c]) :
                             RowOfRecord(created_receipts[c][i], result[c][i])
                      /\ \A i, j \in 1..Len(created_receipts[c]) :
                             i < j => created_receipts[c][i].id < created_receipts[c][j].id

\* a date pattern matches in the chunk and no format parses what it matched
DateUnparseable(chunk) == TryPatterns("date", PatternsTable.date, 1, chunk) = <<NoneVal>>

\* C14: a segment in which a date pattern matches text that none of the four formats
\* parses gives no record (its date counts as absent), and the date raises nothing.
C14_UnparseableDate ==
    /\ \A d \in {"31/02/2024", "20/07-2025", "20-Xyz-2025"} : clean_date(d) = NoneVal
    /\ \A ck \in Chunks :
           DateUnparseable(Chunk(ck)) => RecordsOf(ck[1], Chunk(ck)) = {}

\* a line of upper-case letters, spaces and '&' only, with something on it
IsCapsLine(l) ==
    /\ Strip(l) # ""
    /\ \A i \in 1..Len(l) : Ch(l, i) \in Upper \cup {" ", "&"}

\* the all-caps lines of the chunk, as line numbers
CapsLines(chunk) == {k \in 1..Len(TextLines(chunk)) : IsCapsLine(TextLines(chunk)[k])}

FirstCapsLine(chunk) == TextLines(chunk)[SetMin(CapsLines(chunk))]

\* C15: in a segment with an all-caps line the vendor is the first such line, trimmed
\* (one line, never several, also when the segment has a From: or Store: label); in a
\* segment without one the all-caps rule gives nothing (no empty vendor from a blank
\* line).
C15_AllCapsFirst ==
    \A ck \in Chunks :
        NotBlank(Chunk(ck)) =>
            /\ CapsLines(Chunk(ck)) # {}
                   => VendorField(PatternsTable, Chunk(ck)) = <<Strip(FirstCapsLine(Chunk(ck)))>>
            /\ CapsLines(Chunk(ck)) = {} => AllCapsSearch(Chunk(ck)) = <<>>

\* the chunk holds one of the labels from: / billed by: / sold by: / store:
HasVendorLabel(chunk) ==
    \E p \in 1..Len(chunk) :
        \E label \in {"from:", "billed by:", "sold by:", "store:"} : LitAt(chunk, p, label, TRUE)

\* the first line of the chunk that is not blank
FirstNonBlankLine(chunk) ==
    TextLines(chunk)[SetMin({k \in 1..Len(TextLines(chunk)) : NotBlank(TextLines(chunk)[k])})]

\* C16: in a segment without all-caps line the ranked vendor patterns decide: a label
\* gives the rest of its line ("From: Unknown Shop" gives Unknown Shop), and without
\* label the first non-empty line is the vendor ("Coffee Shop" gives Coffee Shop).
C16_VendorFallback ==
    \A ck \in Chunks :
        (NotBlank(Chunk(ck)) /\ CapsLines(Chunk(ck)) = {}) =>
            /\ Contains(Chunk(ck), "From: Unknown Shop\n")
                   => VendorField(PatternsTable, Chunk(ck)) = <<"Unknown Shop">>
            /\ Contains(Chunk(ck), "Sold by: More Jio\n")
                   => VendorField(PatternsTable, Chunk(ck)) = <<"More Jio">>
            /\ ~HasVendorLabel(Chunk(ck))
                   => VendorField(PatternsTable, Chunk(ck)) = <<Strip(FirstNonBlankLine(Chunk(ck)))>>

\* the four amount labels, in list order
AmountLabels == <<"total amount:", "total:", "grand total:", "amount paid:">>

\* at q: an optional ₹, digits and commas, a point and two decimals
NumberWithDecimals(chunk, q) ==
    NumberAt(chunk, IF Ch(chunk, q) = "₹" THEN q + 1 ELSE q) # <<>>

\* the chunk holds one of the labels followed (white space apart) by such a number
HasLabelledAmount(chunk) ==
    \E p \in 1..Len(chunk) :
        \E i \in 1..Len(AmountLabels) :
            /\ LitAt(chunk, p, AmountLabels[i], TRUE)
            /\ NumberWithDecimals(chunk, RunEnd(chunk, p + Len(AmountLabels[i]), Space) + 1)

AmountOf(chunk) == TryPatterns("amount", PatternsTable.amount, 1, chunk)

\* C17: the labels are tried in list order wherever they sit in the text: a segment
\* with "Amount Paid: 10.00" and "Total: 20.00" gives 20.00 in either order; and a
\* segment holding one of the four labels followed by an optional ₹ and a number with
\* two decimals resolves an amount ("Total Amount:₹12.00" gives 12.00).
C17_AmountLabels ==
    \A ck \in Chunks :
        /\ (Contains(Chunk(ck), "Amount Paid: 10.00") /\ Contains(Chunk(ck), "Total: 20.00"))
               => AmountOf(Chunk(ck)) = << <<20, 0>> >>
        /\ HasLabelledAmount(Chunk(ck)) => Resolved(AmountOf(Chunk(ck)))
        /\ Contains(Chunk(ck), "Total Amount:₹12.00") => AmountOf(Chunk(ck)) = << <<12, 0>> >>

\* symbol -> code
SymbolCodes ==
    << <<"$", "USD">>, <<"€", "EUR">>, <<"£", "GBP">>, <<"¥", "JPY">>,
       <<"₹", "INR">>, <<"Rs.", "INR">>, <<"Rs", "INR">> >>

CurrencyCodes == {"INR", "USD", "EUR", "GBP", "JPY"}

\* the symbols that stand at p with a digit right after them
SymbolAmountAt(chunk, p) ==
    {k \in 1..Len(SymbolCodes) :
        /\ LitAt(chunk, p, SymbolCodes[k][1], FALSE)
        /\ Ch(chunk, p + Len(SymbolCodes[k][1])) \in Digit}

SymbolAmountStarts(chunk) == {p \in 1..Len(chunk) : SymbolAmountAt(chunk, p) # {}}

CodeAt(chunk, p) == SymbolCodes[SetMin(SymbolAmountAt(chunk, p))][2]

\* the code of the leftmost symbol that is immediately followed by a number
FirstSymbolAmount(chunk, starts) ==
    IF starts = {} THEN "INR" ELSE CodeAt(chunk, SetMin(starts))

\* C18: the currency of a record is one of INR, USD, EUR, GBP, JPY, and it is the code
\* of the leftmost currency symbol of the segment that is immediately followed by a
\* numeric amount, INR when there is none.
C18_FirstSymbolAmount ==
    \A ci \in Records :
        /\ Rec(ci).currency \in CurrencyCodes
        /\ Rec(ci).currency =
               FirstSymbolAmount(Rec(ci).raw_text, SymbolAmountStarts(Rec(ci).raw_text))

Failed(c) == upc[c] \in {"http415", "http422", "http500"}

\* C19: an upload request that fails at any step, the conversion or persisting of
\* the k-th of several records included, leaves no row of its file in the table.
C19_AllOrNothing ==
    \A c \in Calls : Failed(c) => RowsOf(c) = {}

\* row and record agree on every field the engine produced
RowCarriesRecord(row, rec) ==
    /\ row.vendor = rec.vendor
    /\ row.transaction_date = rec.transaction_date
    /\ row.total_amount = rec.total_amount
    /\ row.category = rec.category
    /\ row.currency = rec.currency
    /\ row.raw_text = rec.raw_text

\* C20: every row persisted by a successful upload carries its record's vendor,
\* date, amount, category, currency and raw text unchanged: a record inferred as USD
\* is stored as USD.
C20_RowsCarryRecords ==
    \A c \in Calls :
        upc[c] = "http201" =>
            /\ Len(created_receipts[c]) = Len(result[c])
            /\ \A i \in 1..Len(created_receipts[c]) :
                   /\ \E r \in 1..Len(db) : db[r] = created_receipts[c][i]
                   /\ RowCarriesRecord(created_receipts[c][i], result[c][i])

====
